---- MODULE Spec2Model ----
(***************************************************************************)
(* FAVES regulatory detection benchmark (scripts/faves_benchmark.py).      *)
(*                                                                         *)
(* Two specifications over one set of variables:                           *)
(*   SpecMetrics  calculate_metrics as a pure function of a results frame  *)
(*   Spec         main: fetch_ground_truth_data, validate_against_faves,   *)
(*                generate_report                                          *)
(*                                                                         *)
(* Cell values of the pandas frames are strings: "True", "False", "None"   *)
(* (a JSON null kept by an object column), "NaN" (a missing cell), the     *)
(* schedule labels, the compound names and the error texts.              *)
(* A rate, a Python float in the code, is an exact fraction <<n, d>> in    *)
(* lowest terms.                                                           *)
(***************************************************************************)
EXTENDS Integers, Sequences, FiniteSets, TLC

VARIABLES
    results_df,     \* calculate_metrics: the frame it is applied to
    metrics,        \* calculate_metrics: its outcome (a report or the exception raised)
    prev_metrics,   \* the outcome for the frame before the last insertion
    args,           \* main: the parsed command line
    pc,             \* main: its position
    gt_file,        \* DATA_DIR / "ground_truth.csv"
    result_files,   \* RESULTS_DIR / validation_results_*.csv, sorted by name
    report_files,   \* RESULTS_DIR / benchmark_report_*.md (the metrics each was rendered from)
    df,             \* validate_against_faves: the loaded ground truth
    idx,            \* validate_against_faves: rows of df the loop has consumed
    results,        \* validate_against_faves: the local list of observations
    calls,          \* validate_against_faves: each API call made (compound, how it ended)
    compliance,     \* validate_against_faves: the compliance object last extracted
    returned        \* validate_against_faves: what it handed to its caller

mvars == <<results_df, metrics, prev_metrics>>
pvars == <<args, pc, gt_file, result_files, report_files, df, idx, results, calls,
          compliance, returned>>
vars == <<results_df, metrics, prev_metrics,
          args, pc, gt_file, result_files, report_files, df, idx, results, calls,
          compliance, returned>>

(***************************************************************************)
(* Bounds                                                                  *)
(***************************************************************************)
MaxLen == 3        \* rows of a freely drawn results frame
MaxHit == 10       \* rows per agreeing cell (TP, TN) of a scenario frame
MaxMiss == 1       \* rows per disagreeing cell (FN, FP) of a scenario frame

(***************************************************************************)
(* Values                                                                  *)
(***************************************************************************)
NaN == "NaN"
None == "None"

RECURSIVE GCD(_, _)
GCD(a, b) == IF b = 0 THEN a ELSE GCD(b, a % b)

\* n / d for integers n >= 0, d > 0
Frac(n, d) == LET g == GCD(n, d) IN <<n \div g, d \div g>>
Zero == <<0, 1>>
One == <<1, 1>>
RMul(x, y) == Frac(x[1] * y[1], x[2] * y[2])
RAdd(x, y) == Frac(x[1] * y[2] + y[1] * x[2], x[2] * y[2])
RDiv(x, y) == Frac(x[1] * y[2], x[2] * y[1])
RPos(x) == x[1] > 0

\* pandas: a missing value (NaN or None)
isna(v) == v \in {NaN, None}

\* pandas: element-wise ==, false on a missing value
SeriesEq(a, b) == ~isna(a) /\ ~isna(b) /\ a = b

\* DataFrame(list of dicts): the columns are the union of the dicts' keys
Columns(frame) == UNION {DOMAIN frame[i] : i \in 1..Len(frame)}

\* a cell of a row: NaN where the row's dict had no such key
Cell(row, col) == IF col \in DOMAIN row THEN row[col] ELSE NaN

(***************************************************************************)
(* The classification API's answer and the observation made of it          *)
(***************************************************************************)
\* a flag of the compliance object: a JSON boolean, a JSON null, or no such key
FlagValues == {"True", "False", "None", "missing"}

\* dict.get(key, default)
Get(c, key, default) ==
    IF c[key] = "missing" THEN default ELSE c[key]

\* Python's `a or b`: a if a is truthy, else b
PyOr(a, b) == IF a = "True" THEN a ELSE b

DetectedScaffoldIgnored(c) == Get(c, "is_dea_controlled", "False")

DetectedControlled(c) ==
    PyOr(Get(c, "is_dea_controlled", "False"), Get(c, "is_scaffold_match", "False"))

\* Python's scalar == on the values modelled
PyEq(a, b) == IF a = b THEN "True" ELSE "False"

Observation(row, c) ==
    LET detected == DetectedControlled(c) IN
    [name |-> row.name,
     smiles |-> row.smiles,
     category |-> row.category,
     expected_schedule |-> row.schedule,
     expected_controlled |-> row.expected_controlled,
     detected_controlled |-> detected,
     detected_whitelisted |-> Get(c, "is_whitelisted", "False"),
     is_scaffold_match |-> Get(c, "is_scaffold_match", "False"),
     correct |-> IF row.expected_controlled = "True"
                 THEN PyEq(detected, "True") ELSE PyEq(detected, "False")]

ErrorObservation(row, text) ==
    [name |-> row.name, smiles |-> row.smiles, error |-> text]

(***************************************************************************)
(* calculate_metrics                                                       *)
(***************************************************************************)
Raised(key) == [raised |-> "KeyError", key |-> key]

IsReport(m) == "total_tested" \in DOMAIN m

ValidKeepsErrors(frame) == frame

\* results_df[~results_df.get("error", ...).notna()]
Valid(frame) == SelectSeq(frame, LAMBDA r : isna(Cell(r, "error")))

Where(frame, col, v) == SelectSeq(frame, LAMBDA r : SeriesEq(Cell(r, col), v))

RateNoGuard(n, d) == IF d > 0 THEN Frac(n, d) ELSE One

\* n / d if d > 0 else 0
Rate(n, d) == IF d > 0 THEN Frac(n, d) ELSE Zero

ScheduleMatchesAmongAll(controlled) ==
    SelectSeq(controlled,
              LAMBDA r : SeriesEq(Cell(r, "expected_schedule"),
                                  Cell(r, "detected_schedule")))

ScheduleMatches(controlled) ==
    SelectSeq(controlled,
              LAMBDA r : /\ SeriesEq(Cell(r, "detected_controlled"), "True")
                         /\ SeriesEq(Cell(r, "expected_schedule"),
                                     Cell(r, "detected_schedule")))

FdaApprovedOrNegativeControl(valid) ==
    SelectSeq(valid, LAMBDA r : SeriesEq(Cell(r, "expected_controlled"), "False"))

\* valid[valid["category"] == "fda_approved"]
FdaApproved(valid) == Where(valid, "category", "fda_approved")

MetricsOf(frame) ==
    LET valid == Valid(frame)
        controlled == Where(valid, "expected_controlled", "True")
        tp == Len(Where(controlled, "detected_controlled", "True"))
        fn == Len(Where(controlled, "detected_controlled", "False"))
        non_controlled == Where(valid, "expected_controlled", "False")
        tn == Len(Where(non_controlled, "detected_controlled", "False"))
        fp == Len(Where(non_controlled, "detected_controlled", "True"))
        sensitivity == Rate(tp, tp + fn)
        specificity == Rate(tn, tn + fp)
        precision == Rate(tp, tp + fp)
        f1 == IF RPos(RAdd(precision, sensitivity))
              THEN RDiv(RMul(<<2, 1>>, RMul(precision, sensitivity)),
                        RAdd(precision, sensitivity))
              ELSE Zero
        accuracy == Rate(tp + tn, tp + tn + fp + fn)
        schedule_accuracy ==
            IF "detected_schedule" \in Columns(frame)
            THEN Rate(Len(ScheduleMatches(controlled)), tp)
            ELSE Zero
        fda_approved == FdaApproved(valid)
        whitelisted == Where(fda_approved, "detected_whitelisted", "True")
        whitelist_rate == Rate(Len(whitelisted), Len(fda_approved))
    IN  [total_tested |-> Len(valid),
         controlled_tested |-> Len(controlled),
         non_controlled_tested |-> Len(non_controlled),
         true_positives |-> tp,
         true_negatives |-> tn,
         false_positives |-> fp,
         false_negatives |-> fn,
         sensitivity |-> sensitivity,
         specificity |-> specificity,
         precision |-> precision,
         f1_score |-> f1,
         accuracy |-> accuracy,
         schedule_accuracy |-> schedule_accuracy,
         whitelist_rate |-> whitelist_rate]

\* The columns calculate_metrics indexes, in the order it indexes them; a
\* frame without one of them raises KeyError at that line.
calculate_metrics(frame) ==
    LET cols == Columns(frame) IN
    IF "expected_controlled" \notin cols THEN Raised("expected_controlled")
    ELSE IF "detected_controlled" \notin cols THEN Raised("detected_controlled")
    ELSE IF "detected_schedule" \in cols /\ "expected_schedule" \notin cols
         THEN Raised("expected_schedule")
    ELSE IF "category" \notin cols THEN Raised("category")
    ELSE IF "detected_whitelisted" \notin cols THEN Raised("detected_whitelisted")
    ELSE MetricsOf(frame)

(***************************************************************************)
(* Ground truth rows (fetch_ground_truth_data), as read back from the CSV  *)
(***************************************************************************)
Categories == {"controlled", "fda_approved", "negative_control"}

GroundTruthRow(name, smiles, category, schedule) ==
    [name |-> name,
     smiles |-> smiles,
     category |-> category,
     schedule |-> IF category = "controlled" THEN schedule ELSE NaN,
     expected_controlled |-> IF category = "controlled" THEN "True" ELSE "False"]

Compliance(dea, scaffold, whitelisted) ==
    [is_dea_controlled |-> dea, is_scaffold_match |-> scaffold,
     is_whitelisted |-> whitelisted]

(***************************************************************************)
(* SpecMetrics: calculate_metrics applied to drawn results frames          *)
(***************************************************************************)
Pending == [pending |-> "yes"]

\* The answers the drawn frames are made of: detected True, False and None.
DrawnAnswers == {<<"True", "None">>, <<"False", "False">>, <<"False", "None">>}

\* What one row of a drawn frame is made from: an error, or an answer for a
\* compound of some category; ds is the value of a detected_schedule key
\* added to the row ("absent": no such key).
RowSpecs ==
    {[kind |-> "error", category |-> "controlled", answer |-> <<"False", "False">>,
      whitelisted |-> "missing", ds |-> "absent"]}
    \cup {[kind |-> "obs", category |-> "controlled", answer |-> a,
           whitelisted |-> "missing", ds |-> d] :
              a \in DrawnAnswers, d \in {"absent", "I", "II"}}
    \cup {[kind |-> "obs", category |-> "fda_approved", answer |-> a,
           whitelisted |-> w, ds |-> "absent"] :
              a \in DrawnAnswers, w \in {"True", "False"}}
    \cup {[kind |-> "obs", category |-> "negative_control", answer |-> a,
           whitelisted |-> "missing", ds |-> "absent"] :
              a \in {<<"True", "None">>, <<"False", "False">>}}

RowOf(i, s) ==
    LET row == GroundTruthRow(ToString(i), "C", s.category, "I")
        obs == Observation(row, Compliance(s.answer[1], s.answer[2], s.whitelisted))
    IN  IF s.kind = "error" THEN ErrorObservation(row, "HTTP 500")
        ELSE IF s.ds = "absent" THEN obs
        ELSE [k \in DOMAIN obs \cup {"detected_schedule"} |->
                 IF k = "detected_schedule" THEN s.ds ELSE obs[k]]

DrawnFrame(ss) == [i \in 1..Len(ss) |-> RowOf(i, ss[i])]

\* tp detected and fn missed controlled compounds, then tn cleared and fp
\* flagged approved drugs, in ground-truth order
ScenarioFrame(tp, fn, tn, fp) ==
    [i \in 1..(tp + fn + tn + fp) |->
        IF i <= tp + fn
        THEN Observation(GroundTruthRow(ToString(i), "C", "controlled", "II"),
                         Compliance(IF i <= tp THEN "True" ELSE "False", "False", "False"))
        ELSE Observation(GroundTruthRow(ToString(i), "C", "fda_approved", NaN),
                         Compliance("False", IF i <= tp + fn + tn THEN "False" ELSE "True",
                                    "True"))]

\* c controlled compounds the API whitelists, then w approved drugs it
\* whitelists, n it does not and u whose is_whitelisted is null, then g
\* whitelisted negative controls, in ground-truth order
WhitelistFrame(c, w, n, u, g) ==
    [i \in 1..(c + w + n + u + g) |->
        IF i <= c
        THEN Observation(GroundTruthRow(ToString(i), "C", "controlled", "II"),
                         Compliance("True", "False", "True"))
        ELSE IF i <= c + w + n + u
        THEN Observation(GroundTruthRow(ToString(i), "C", "fda_approved", NaN),
                         Compliance("False", "False",
                                    IF i <= c + w THEN "True"
                                    ELSE IF i <= c + w + n THEN "False" ELSE "None"))
        ELSE Observation(GroundTruthRow(ToString(i), "C", "negative_control", NaN),
                         Compliance("False", "False", "True"))]

InsertAt(frame, p, row) ==
    SubSeq(frame, 1, p) \o <<row>> \o SubSeq(frame, p + 1, Len(frame))

\* files, return values and locals: absent, not yet set, None, a frame
Absent == [kind |-> "absent"]
Unset == [kind |-> "unset"]
ReturnedNone == [kind |-> "None"]
Frame(rows) == [kind |-> "frame", rows |-> rows]
Unbound == Compliance("unbound", "unbound", "unbound")

\* main is not running
PipelineIdle ==
    /\ args = [all |-> FALSE, fetch_data |-> FALSE, validate |-> FALSE, report |-> FALSE]
    /\ pc = "done"
    /\ gt_file = Absent
    /\ result_files = <<>>
    /\ report_files = <<>>
    /\ df = <<>>
    /\ idx = 0
    /\ results = <<>>
    /\ calls = <<>>
    /\ compliance = Unbound
    /\ returned = Unset

MetricsInit ==
    /\ PipelineIdle
    /\ \/ \E n \in 0..MaxLen : \E ss \in [1..n -> RowSpecs] :
             results_df = DrawnFrame(ss)
       \/ \E tp \in 0..MaxHit, fn \in 0..MaxMiss, tn \in 0..MaxHit, fp \in 0..MaxMiss :
             results_df = ScenarioFrame(tp, fn, tn, fp)
       \/ \E c \in 0..MaxMiss, w \in 0..MaxLen, n \in 0..MaxMiss, u \in 0..MaxMiss,
             g \in 0..MaxMiss :
             results_df = WhitelistFrame(c, w, n, u, g)
    /\ metrics = Pending
    /\ prev_metrics = Pending

Evaluate ==
    /\ metrics = Pending
    /\ metrics' = calculate_metrics(results_df)
    /\ UNCHANGED <<results_df, prev_metrics>>
    /\ UNCHANGED pvars

\* the same frame with one more error observation, evaluated again
InsertError ==
    /\ metrics # Pending
    /\ prev_metrics = Pending
    /\ \E p \in 0..Len(results_df) :
          results_df' = InsertAt(results_df, p,
              ErrorObservation(GroundTruthRow(ToString(Len(results_df) + 1), "C", "controlled", "I"),
                               "HTTP 500"))
    /\ prev_metrics' = metrics
    /\ metrics' = calculate_metrics(results_df')
    /\ UNCHANGED pvars

(***************************************************************************)
(* Spec: main and its three stages                                         *)
(***************************************************************************)

\* One compound of each list of the module: DEA_CONTROLLED["I"],
\* FDA_APPROVED_NON_CONTROLLED, NEGATIVE_CONTROLS, in the order
\* fetch_ground_truth_data walks them.
Taxonomy ==
    <<[name |-> "heroin", category |-> "controlled", schedule |-> "I"],
      [name |-> "aspirin", category |-> "fda_approved", schedule |-> NaN],
      [name |-> "caffeine", category |-> "negative_control", schedule |-> NaN]>>

\* fetch_smiles_from_pubchem: None, or a record whose smiles may be missing
LookupOutcomes == {"none", "smiles", "nosmiles"}

RECURSIVE AllData(_, _)
AllData(outcome, n) ==
    IF n = 0 THEN <<>>
    ELSE LET rest == AllData(outcome, n - 1)
             t == Taxonomy[n]
         IN  IF outcome[n] = "none" THEN rest
             ELSE Append(rest, GroundTruthRow(t.name,
                                              IF outcome[n] = "smiles" THEN "C" ELSE NaN,
                                              t.category, t.schedule))

GroundTruths ==
    {AllData(o, Len(Taxonomy)) : o \in [1..Len(Taxonomy) -> LookupOutcomes]}

\* DataFrame.to_csv then read_csv: every row has every column, None reads
\* back as NaN
ReadCsv(rows) ==
    LET cols == Columns(rows) IN
    [i \in 1..Len(rows) |->
        [c \in cols |-> IF isna(Cell(rows[i], c)) THEN NaN ELSE rows[i][c]]]

\* The command lines: --all alone, or any of --fetch-data, --validate, --report
CommandLines ==
    {[all |-> a, fetch_data |-> f, validate |-> v, report |-> r] :
        a \in BOOLEAN, f \in BOOLEAN, v \in BOOLEAN, r \in BOOLEAN}

\* What one call of the classification API can come to
ApiAnswers ==
    {[kind |-> k, compliance |-> Compliance("missing", "missing", "missing")] :
        k \in {"timeout", "http_500", "bad_payload"}}
    \cup {[kind |-> "ok", compliance |-> Compliance(d, s, w)] :
            d \in FlagValues, s \in FlagValues, w \in {"True", "missing"}}

\* A results file an earlier run left behind
OldResults ==
    <<Observation(GroundTruthRow("heroin", "C", "controlled", "I"),
                  Compliance("True", "False", "False")),
      ErrorObservation(GroundTruthRow("aspirin", "C", "fda_approved", NaN), "HTTP 500")>>

MetricsIdle ==
    /\ results_df = <<>>
    /\ metrics = Pending
    /\ prev_metrics = Pending

Init ==
    /\ MetricsIdle
    /\ args \in CommandLines
    /\ pc = "start"
    /\ gt_file \in {Absent} \cup {Frame(g) : g \in GroundTruths}
    /\ result_files \in {<<>>, <<OldResults>>}
    /\ report_files = <<>>
    /\ df = <<>>
    /\ idx = 0
    /\ results = <<>>
    /\ calls = <<>>
    /\ compliance = Unbound
    /\ returned = Unset

\* main: the line it stands at once the fetch stage is behind it
AtValidateStage ==
    \/ pc = "validate"
    \/ pc = "start" /\ ~(args.all \/ args.fetch_data)

\* fetch_ground_truth_data: the CSV is written, then the summary indexes
\* df['category'], which an empty frame does not have
Fetch ==
    /\ pc = "start"
    /\ args.all \/ args.fetch_data
    /\ \E o \in [1..Len(Taxonomy) -> LookupOutcomes] :
          LET all_data == AllData(o, Len(Taxonomy)) IN
          /\ gt_file' = Frame(all_data)
          /\ pc' = IF all_data = <<>> THEN "crashed" ELSE "validate"
    /\ UNCHANGED <<args, result_files, report_files, df, idx, results, calls, compliance,
                   returned>>
    /\ UNCHANGED mvars

ValidateNoGroundTruthThenReport ==
    /\ AtValidateStage
    /\ args.all \/ args.validate
    /\ gt_file = Absent
    /\ returned' = ReturnedNone
    /\ pc' = "done"
    /\ IF (args.all \/ args.report) /\ result_files # <<>>
       THEN report_files' =
                Append(report_files,
                       calculate_metrics(ReadCsv(result_files[Len(result_files)])))
       ELSE UNCHANGED report_files
    /\ UNCHANGED <<args, gt_file, result_files, df, idx, results, calls, compliance>>
    /\ UNCHANGED mvars

\* validate_against_faves without ground truth: a message and None, and
\* main goes on past the report
ValidateNoGroundTruth ==
    /\ AtValidateStage
    /\ args.all \/ args.validate
    /\ gt_file = Absent
    /\ returned' = ReturnedNone
    /\ pc' = "done"
    /\ UNCHANGED <<args, gt_file, result_files, report_files, df, idx, results, calls,
                   compliance>>
    /\ UNCHANGED mvars

\* validate_against_faves up to its loop; the CSV of an empty frame either
\* fails to parse or reads as a frame without rows
ValidateLoad ==
    /\ AtValidateStage
    /\ args.all \/ args.validate
    /\ gt_file # Absent
    /\ \/ /\ df' = ReadCsv(gt_file.rows)
          /\ results' = <<>>
          /\ idx' = 0
          /\ pc' = "loop"
       \/ /\ gt_file.rows = <<>>
          /\ pc' = "crashed"
          /\ UNCHANGED <<df, results, idx>>
    /\ UNCHANGED <<args, gt_file, result_files, report_files, calls, compliance, returned>>
    /\ UNCHANGED mvars

ObservationForStatusIgnored(row, answer) ==
    CASE answer.kind \in {"ok", "http_500"} -> Observation(row, answer.compliance)
      [] answer.kind = "timeout" -> ErrorObservation(row, "timeout")
      [] OTHER -> ErrorObservation(row, "bad payload")

\* what the body of the try statement appends for one answer
ObservationFor(row, answer) ==
    CASE answer.kind = "ok" -> Observation(row, answer.compliance)
      [] answer.kind = "http_500" -> ErrorObservation(row, "HTTP 500")
      [] answer.kind = "timeout" -> ErrorObservation(row, "timeout")
      [] OTHER -> ErrorObservation(row, "bad payload")

ValidateRecordNoSkip ==
    /\ pc = "loop"
    /\ idx < Len(df)
    /\ LET row == df[idx + 1] IN
       \E answer \in ApiAnswers :
          /\ results' = Append(results, ObservationFor(row, answer))
          /\ compliance' = IF answer.kind = "ok" THEN answer.compliance ELSE compliance
          /\ calls' = Append(calls, [name |-> row.name, kind |-> answer.kind])
    /\ idx' = idx + 1
    /\ UNCHANGED <<args, pc, gt_file, result_files, report_files, df, returned>>
    /\ UNCHANGED mvars

\* one iteration of the loop over the ground truth
ValidateRecord ==
    /\ pc = "loop"
    /\ idx < Len(df)
    /\ LET row == df[idx + 1] IN
       \/ /\ isna(row.smiles)
          /\ UNCHANGED <<results, calls, compliance>>
       \/ /\ ~isna(row.smiles)
          /\ \E answer \in ApiAnswers :
                /\ results' = Append(results, ObservationFor(row, answer))
                /\ compliance' = IF answer.kind = "ok" THEN answer.compliance
                                  ELSE compliance
                /\ calls' = Append(calls, [name |-> row.name, kind |-> answer.kind])
    /\ idx' = idx + 1
    /\ UNCHANGED <<args, pc, gt_file, result_files, report_files, df, returned>>
    /\ UNCHANGED mvars

\* KeyboardInterrupt inside the loop: not an Exception, so it leaves
\* validate_against_faves and main; nothing is saved or returned
Interrupt ==
    /\ pc = "loop"
    /\ pc' = "interrupted"
    /\ UNCHANGED <<args, gt_file, result_files, report_files, df, idx, results, calls,
                   compliance, returned>>
    /\ UNCHANGED mvars

\* after the loop: the results are saved and returned, and main decides on
\* the report
ValidateSave ==
    /\ pc = "loop"
    /\ idx = Len(df)
    /\ result_files' = Append(result_files, results)
    /\ returned' = Frame(results)
    /\ pc' = IF args.all \/ args.report THEN "report" ELSE "done"
    /\ UNCHANGED <<args, gt_file, report_files, df, idx, results, calls, compliance>>
    /\ UNCHANGED mvars

\* generate_report(results): the metrics, then the report file
ReportResults ==
    /\ pc = "report"
    /\ LET m == calculate_metrics(returned.rows) IN
       IF IsReport(m)
       THEN report_files' = Append(report_files, m) /\ pc' = "done"
       ELSE UNCHANGED report_files /\ pc' = "crashed"
    /\ UNCHANGED <<args, gt_file, result_files, df, idx, results, calls, compliance,
                   returned>>
    /\ UNCHANGED mvars

\* generate_report(): the latest results file, if there is one
ReportLatest ==
    /\ AtValidateStage
    /\ ~(args.all \/ args.validate)
    /\ args.report
    /\ IF result_files = <<>>
       THEN UNCHANGED report_files /\ pc' = "done"
       ELSE LET latest == result_files[Len(result_files)]
                m == calculate_metrics(ReadCsv(latest))
            IN  IF IsReport(m)
                THEN report_files' = Append(report_files, m) /\ pc' = "done"
                ELSE UNCHANGED report_files /\ pc' = "crashed"
    /\ UNCHANGED <<args, gt_file, result_files, df, idx, results, calls, compliance,
                   returned>>
    /\ UNCHANGED mvars

\* neither --validate nor --report (nor --all): main ends
NoStage ==
    /\ AtValidateStage
    /\ ~(args.all \/ args.validate)
    /\ ~args.report
    /\ pc' = "done"
    /\ UNCHANGED <<args, gt_file, result_files, report_files, df, idx, results, calls,
                   compliance, returned>>
    /\ UNCHANGED mvars

Next ==
    \/ Fetch
    \/ ValidateNoGroundTruth
    \/ ValidateLoad
    \/ ValidateRecord
    \/ Interrupt
    \/ ValidateSave
    \/ ReportResults
    \/ ReportLatest
    \/ NoStage

Spec == Init /\ [][Next]_vars

MetricsNext ==
    \/ Evaluate
    \/ InsertError

SpecMetrics == MetricsInit /\ [][MetricsNext]_vars

(***************************************************************************)
(* Properties of calculate_metrics (SpecMetrics)                           *)
(***************************************************************************)
HasError(row) == "error" \in DOMAIN row /\ ~isna(row.error)

\* the valid rows of a frame with the given expected and detected values
CellSize(frame, expected, detected) ==
    Cardinality({i \in 1..Len(frame) :
                    /\ ~HasError(frame[i])
                    /\ Cell(frame[i], "expected_controlled") = expected
                    /\ Cell(frame[i], "detected_controlled") = detected})

ValidCount(frame) == Cardinality({i \in 1..Len(frame) : ~HasError(frame[i])})

\* the fraction r is n / d, or 0 where d = 0
IsRatio(r, n, d) ==
    IF d = 0 THEN r = Zero ELSE r[2] > 0 /\ r[1] * d = n * r[2]

Rates(m) ==
    {m.sensitivity, m.specificity, m.precision, m.f1_score, m.accuracy,
     m.schedule_accuracy, m.whitelist_rate}

\* C1: for every results frame, TP + FN + TN + FP is the number of valid
\* (error-free) records, and that number is the total_tested reported.
C1_CountsSumToValid ==
    IsReport(metrics) =>
        /\ metrics.true_positives + metrics.false_negatives
             + metrics.true_negatives + metrics.false_positives = ValidCount(results_df)
        /\ metrics.total_tested = ValidCount(results_df)

C3_AllErrorsZeroRates ==
    (metrics # Pending /\ ValidCount(results_df) = 0) =>
        IsReport(metrics) /\ Rates(metrics) = {Zero}

\* C4: once an error observation has been inserted at any position of a
\* frame, calculate_metrics comes to the same outcome as for the frame
\* without it: the same report (total_tested, counts and rates).
C4_ErrorObservationExcluded ==
    prev_metrics # Pending => metrics = prev_metrics

\* C4 witness: an error observation inserted between two valid observations,
\* and a report that counts the two
C4_Witness ==
    /\ prev_metrics # Pending
    /\ Len(results_df) = 3
    /\ ~HasError(results_df[1]) /\ HasError(results_df[2]) /\ ~HasError(results_df[3])
    /\ IsReport(metrics)
    /\ metrics.total_tested = 2

InUnitInterval(r) == 0 <= r[1] /\ r[1] <= r[2] /\ r[2] > 0

\* C5: every rate of a report calculate_metrics returns (sensitivity,
\* specificity, precision, F1, accuracy, schedule_accuracy, whitelist_rate)
\* lies in [0, 1].
C5_RatesInUnitInterval ==
    IsReport(metrics) => \A r \in Rates(metrics) : InUnitInterval(r)

\* C5 witness: two true positives, the detected schedule of one of them
\* right, and a controlled compound that was missed
C5_Witness ==
    /\ IsReport(metrics)
    /\ "detected_schedule" \in Columns(results_df)
    /\ metrics.true_positives = 2
    /\ metrics.false_negatives = 1
    /\ metrics.schedule_accuracy = <<1, 2>>

\* the valid rows of a category, and those of them the API whitelisted
CategoryCount(frame, category) ==
    Cardinality({i \in 1..Len(frame) :
                    ~HasError(frame[i]) /\ Cell(frame[i], "category") = category})

WhitelistedCount(frame, category) ==
    Cardinality({i \in 1..Len(frame) :
                    /\ ~HasError(frame[i])
                    /\ Cell(frame[i], "category") = category
                    /\ Cell(frame[i], "detected_whitelisted") = "True"})

Names(rows) == [i \in 1..Len(rows) |-> rows[i].name]

\* the rows that have a structure
PresentRows(rows) == SelectSeq(rows, LAMBDA r : r.smiles # NaN)

IsPrefix(s, t) == Len(s) <= Len(t) /\ s = SubSeq(t, 1, Len(s))

Flag(c, key) == IF c[key] = "missing" THEN FALSE ELSE c[key] = "True"

C7_ResultsFollowGroundTruthOrder ==
    returned.kind = "frame" =>
        /\ Names(returned.rows) = Names(PresentRows(gt_file.rows))
        /\ Names(calls) = Names(PresentRows(gt_file.rows))
        /\ result_files[Len(result_files)] = returned.rows

\* C7 witness: three ground-truth records, the second without structure,
\* and a completed run with the other two
C7_Witness ==
    /\ returned.kind = "frame"
    /\ Len(gt_file.rows) = 3
    /\ gt_file.rows[2].smiles = NaN
    /\ Len(returned.rows) = 2

C9_MissingStageOutputGivesNoReport ==
    /\ returned = ReturnedNone =>
          /\ pc = "done"
          /\ gt_file = Absent
          /\ report_files = <<>>
          /\ result_files \in {<<>>, <<OldResults>>}
    /\ result_files \notin {<<>>, <<OldResults>>} => returned.kind = "frame"
    /\ \A i \in 1..Len(report_files) :
          IsReport(report_files[i]) /\ report_files[i].total_tested > 0
    /\ report_files # <<>> =>
          /\ result_files # <<>>
          /\ \/ /\ returned.kind = "frame"
                /\ report_files = <<calculate_metrics(returned.rows)>>
             \/ /\ returned = Unset
                /\ report_files =
                     <<calculate_metrics(ReadCsv(result_files[Len(result_files)]))>>

\* C9 witness: --validate --report without ground truth while an older
\* results file exists: main is done, nothing was written
C9_Witness ==
    /\ args.validate /\ args.report
    /\ returned = ReturnedNone
    /\ result_files = <<OldResults>>
    /\ report_files = <<>>
    /\ pc = "done"

\* C10: during a run the accumulated results are a prefix of the final
\* results, and a run cancelled at any point yields the partial results
\* (returned or saved) for metrics to be computed on.
C10_CancelYieldsPartialResults ==
    /\ pc \in {"loop", "interrupted"} =>
          IsPrefix(Names(results), Names(PresentRows(df)))
    /\ pc = "interrupted" =>
          \/ returned = Frame(results)
          \/ result_files # <<>> /\ result_files[Len(result_files)] = results

====
